---- MODULE Spec2Model ----
(***************************************************************************)
(* examples/multimodal-demo/create_test_image.py                           *)
(*                                                                         *)
(* A straight-line script: import Pillow, create a 400x300 white RGB       *)
(* canvas, draw a rectangle, two labels, an ellipse and a third label,     *)
(* save the canvas as test-image.png and print a confirmation.  Any        *)
(* statement that raises ends the process (there is no try/except).        *)
(*                                                                         *)
(* The canvas is observed at a grid of probe pixels (Probes).  The file    *)
(* system is the one path the script names, test-image.png, together with  *)
(* the permissions that decide whether open(path, "w+b") succeeds.         *)
(***************************************************************************)
EXTENDS Integers, Sequences, FiniteSets, TLC

VARIABLES
    pc,      \* the statement about to run, or "done" / "failed"
    env,     \* what the process finds around it during this run
    font,    \* the default font of the installed Pillow
    img,     \* the canvas `img` (NoImg before line 5)
    draw,    \* the drawing context `draw` (its cached font)
    fs,      \* test-image.png in the working directory
    stdout,  \* the lines printed by this run
    err,     \* the exception that ended this run, "none" otherwise
    trace,   \* the statements this run has completed, in order
    touched, \* how often this run opened test-image.png for writing
    run,     \* the number of the current run (1, 2, ...)
    fs0,     \* test-image.png as it was when this run started
    prev     \* how the previous run ended and the file it left

vars == <<pc, env, font, img, draw, fs, stdout, err, trace, touched, run, fs0, prev>>

\* Runs of the script in succession that the model follows.
MaxRuns == 2

Width == 400
Height == 300

\* The probe pixels: corners of the canvas, the rectangle's stroke and its
\* neighbours, the label anchors, the ellipse's centre, axis ends and box.
ProbeXs == {0, 49, 50, 52, 53, 80, 150, 165, 199, 200, 201, 250, 251, 347, 348, 350, 351, 399}
ProbeYs == {0, 49, 50, 52, 53, 100, 140, 180, 190, 199, 200, 201, 220, 221, 247, 248, 250, 251, 299}
Probes == {p \in ProbeXs \X ProbeYs : p[1] < Width /\ p[2] < Height}

\* getrgb with the channels in the order blue, green, red.
getrgbBGR(name) ==
    CASE name = "white" -> <<255, 255, 255>>
      [] name = "black" -> <<0, 0, 0>>
      [] name = "blue" -> <<255, 0, 0>>
      [] name = "lightblue" -> <<230, 216, 173>>

\* ImageColor.getrgb for the colour names the script uses.
getrgb(name) ==
    CASE name = "white" -> <<255, 255, 255>>
      [] name = "black" -> <<0, 0, 0>>
      [] name = "blue" -> <<0, 0, 255>>
      [] name = "lightblue" -> <<173, 216, 230>>

NoColor == <<-1, -1, -1>>
NoImg == [size |-> <<0, 0>>, pix |-> [p \in Probes |-> NoColor]]

\* Image.new without its color argument: the canvas starts black.
NewImageBlack == [size |-> <<Width, Height>>, pix |-> [p \in Probes |-> <<0, 0, 0>>]]

\* Image.new with the size given as (height, width).
NewImageSwapped == [size |-> <<Height, Width>>, pix |-> [p \in Probes |-> <<255, 255, 255>>]]

\* Image.new('RGB', (400, 300), color='white')
NewImage == [size |-> <<Width, Height>>, pix |-> [p \in Probes |-> getrgb("white")]]

InBox(p, x0, y0, x1, y1) == x0 <= p[1] /\ p[1] <= x1 /\ y0 <= p[2] /\ p[2] <= y1

\* Pixels inside the canvas are the only ones a drawing call can change.
OnCanvas(im, p) == p[1] >= 0 /\ p[1] < im.size[1] /\ p[2] >= 0 /\ p[2] < im.size[2]

\* The pixels in `covered` take the colour; the others keep theirs.
Paint(im, covered, color) ==
    [im EXCEPT !.pix = [p \in Probes |->
        IF OnCanvas(im, p) /\ p \in covered THEN getrgb(color) ELSE im.pix[p]]]

\* draw.rectangle(xy, outline=..., width=w) with no fill: w nested one-pixel
\* frames, each one pixel further inside the box (both corners inclusive).
RectOutline(p, x0, y0, x1, y1, w) ==
    /\ InBox(p, x0, y0, x1, y1)
    /\ ~InBox(p, x0 + w, y0 + w, x1 - w, y1 - w)

DrawRectangle(im, x0, y0, x1, y1, outline, w) ==
    Paint(im, {p \in Probes : RectOutline(p, x0, y0, x1, y1, w)}, outline)

\* The ellipse inscribed in the box (x0,y0)-(x1,y1), in doubled coordinates.
InEllipse(p, x0, y0, x1, y1) ==
    LET a == x1 - x0
        b == y1 - y0
        dx == 2 * p[1] - (x0 + x1)
        dy == 2 * p[2] - (y0 + y1)
    IN  /\ a > 0 /\ b > 0
        /\ dx * dx * b * b + dy * dy * a * a <= a * a * b * b

\* draw.ellipse(xy, fill=..., outline=...): the filled ellipse first, then its
\* one-pixel outline over it.
DrawEllipse(im, x0, y0, x1, y1, fill, outline) ==
    LET inside == {p \in Probes : InEllipse(p, x0, y0, x1, y1)}
        edge == {p \in inside : ~InEllipse(p, x0 + 1, y0 + 1, x1 - 1, y1 - 1)}
    IN  Paint(Paint(im, inside, fill), edge, outline)

\* Pillow's default fonts, by their layout metrics: the built-in bitmap font
\* (fixed 6x11 cells) and, with FreeType, Aileron Regular at size 10 (no glyph
\* advances more than 10 pixels, lines are at most 14 pixels high).
Fonts == {[name |-> "bitmap", adv |-> 6, height |-> 11],
          [name |-> "truetype", adv |-> 10, height |-> 14]}
NoFont == [name |-> "none", adv |-> 0, height |-> 0]

\* draw.text(xy, text, fill=...): the glyphs are laid out to the right of and
\* below the anchor.  Which pixels of a glyph cell carry ink is font data; the
\* model treats every pixel of the layout box as inked, so a pixel outside the
\* box is certainly untouched and a pixel inside it may be.
TextBox(p, x, y, text, f) ==
    InBox(p, x, y, x + f.adv * Len(text) - 1, y + f.height - 1)

DrawText(im, x, y, text, fill, f) ==
    Paint(im, {p \in Probes : TextBox(p, x, y, text, f)}, fill)

\* test-image.png: absent, a PNG, or what a failed write left behind.
Absent == [kind |-> "absent", size |-> <<0, 0>>, pix |-> NoImg.pix, writable |-> FALSE]
OldFile(w) == [kind |-> "png", size |-> <<64, 64>>,
               pix |-> [p \in Probes |-> getrgb("black")], writable |-> w]
Partial(w) == [kind |-> "partial", size |-> <<0, 0>>, pix |-> NoImg.pix, writable |-> w]
\* PNG is lossless: the file holds the canvas's size and pixels.
Encoded(im, w) == [kind |-> "png", size |-> im.size, pix |-> im.pix, writable |-> w]

\* What a run can find: Pillow importable, memory for the canvas, the default
\* font loadable, the working directory writable, room on the disk.
Envs == [pil : BOOLEAN, mem : BOOLEAN, fontOK : BOOLEAN,
         dirWritable : BOOLEAN, diskOK : BOOLEAN]

\* open that looks at the directory's permission only.
CanOpenDirOnly(e, f) == e.dirWritable

\* open(path, "xb"): exclusive creation, an existing file is an error.
CanOpenExclusive(e, f) == f.kind = "absent" /\ e.dirWritable

\* open(path, "w+b"): creating the file needs write permission on the
\* directory, truncating an existing file needs write permission on the file.
CanOpen(e, f) == IF f.kind = "absent" THEN e.dirWritable ELSE f.writable

\* Image.save when the encoder's write fails after the open: the file is
\* closed as it is; a file this call created is removed by Pillow versions
\* that clean up after themselves and left behind by those that do not.
AfterFailedWrite(f) ==
    IF f.kind = "absent" THEN {Absent, Partial(TRUE)} ELSE {Partial(f.writable)}

\* The script with the print moved in front of the save.
NextPcPrintFirst(p) ==
    CASE p = "import" -> "new"
      [] p = "new" -> "draw"
      [] p = "draw" -> "rectangle"
      [] p = "rectangle" -> "text1"
      [] p = "text1" -> "text2"
      [] p = "text2" -> "ellipse"
      [] p = "ellipse" -> "text3"
      [] p = "text3" -> "print"
      [] p = "print" -> "save"
      [] p = "save" -> "done"

\* The script with the save moved in front of the last label.
NextPcSaveBeforeLabel(p) ==
    CASE p = "import" -> "new"
      [] p = "new" -> "draw"
      [] p = "draw" -> "rectangle"
      [] p = "rectangle" -> "text1"
      [] p = "text1" -> "text2"
      [] p = "text2" -> "ellipse"
      [] p = "ellipse" -> "save"
      [] p = "save" -> "text3"
      [] p = "text3" -> "print"
      [] p = "print" -> "done"

\* The script with the save moved in front of every text step.
NextPcSaveBeforeText(p) ==
    CASE p = "import" -> "new"
      [] p = "new" -> "draw"
      [] p = "draw" -> "rectangle"
      [] p = "rectangle" -> "save"
      [] p = "save" -> "text1"
      [] p = "text1" -> "text2"
      [] p = "text2" -> "ellipse"
      [] p = "ellipse" -> "text3"
      [] p = "text3" -> "print"
      [] p = "print" -> "done"

\* The statements of the script in program order.
NextPc(p) ==
    CASE p = "import" -> "new"
      [] p = "new" -> "draw"
      [] p = "draw" -> "rectangle"
      [] p = "rectangle" -> "text1"
      [] p = "text1" -> "text2"
      [] p = "text2" -> "ellipse"
      [] p = "ellipse" -> "text3"
      [] p = "text3" -> "save"
      [] p = "save" -> "print"
      [] p = "print" -> "done"

Terminal == {"done", "failed"}

Init ==
    /\ pc = "import"
    /\ env \in Envs
    /\ font \in Fonts
    /\ img = NoImg
    /\ draw = [font |-> NoFont]
    /\ fs \in {Absent, OldFile(TRUE), OldFile(FALSE)}
    /\ stdout = <<>>
    /\ err = "none"
    /\ trace = <<>>
    /\ touched = 0
    /\ run = 1
    /\ fs0 = fs
    /\ prev = [result |-> "none", file |-> fs]

\* The statement at pc completed: go on to the next one.
Advance ==
    /\ pc' = NextPc(pc)
    /\ trace' = Append(trace, pc)
    /\ err' = err

\* The statement at pc raised e inside a try/except that goes on.
RaiseAndGoOn(e) ==
    /\ pc' = NextPc(pc)
    /\ err' = e
    /\ trace' = trace

\* The statement at pc raised e: the exception reaches the top level and the
\* interpreter exits.
Raise(e) ==
    /\ pc' = "failed"
    /\ err' = e
    /\ trace' = trace

\* line 2: from PIL import Image, ImageDraw, ImageFont
Import ==
    /\ pc = "import"
    /\ IF env.pil THEN Advance ELSE Raise("import")
    /\ UNCHANGED <<env, font, img, draw, fs, stdout, touched, run, fs0, prev>>

\* line 5: img = Image.new('RGB', (400, 300), color='white')
New ==
    /\ pc = "new"
    /\ IF env.mem
         THEN Advance /\ img' = NewImage
         ELSE Raise("memory") /\ img' = img
    /\ UNCHANGED <<env, font, draw, fs, stdout, touched, run, fs0, prev>>

\* line 6: draw = ImageDraw.Draw(img)
Draw ==
    /\ pc = "draw"
    /\ Advance
    /\ draw' = [font |-> NoFont]
    /\ UNCHANGED <<env, font, img, fs, stdout, touched, run, fs0, prev>>

\* line 9: draw.rectangle([50, 50, 350, 250], outline='blue', width=3)
Rectangle ==
    /\ pc = "rectangle"
    /\ Advance
    /\ img' = DrawRectangle(img, 50, 50, 350, 250, "blue", 3)
    /\ UNCHANGED <<env, font, draw, fs, stdout, touched, run, fs0, prev>>

\* draw.text(xy, text, fill=...) at statement `at`: with no font given the
\* drawing context loads the default font on first use and keeps it.
TextStep(at, x, y, text, fill) ==
    /\ pc = at
    /\ IF draw.font = NoFont /\ ~env.fontOK
         THEN Raise("render") /\ UNCHANGED <<img, draw>>
         ELSE LET f == IF draw.font = NoFont THEN font ELSE draw.font
              IN  /\ Advance
                  /\ draw' = [font |-> f]
                  /\ img' = DrawText(img, x, y, text, fill, f)
    /\ UNCHANGED <<env, font, fs, stdout, touched, run, fs0, prev>>

\* line 10: draw.text((80, 100), "AI Workflow CLI", fill='black')
Text1 == TextStep("text1", 80, 100, "AI Workflow CLI", "black")

\* line 11: draw.text((80, 140), "Multimodal Support", fill='blue')
Text2 == TextStep("text2", 80, 140, "Multimodal Support", "blue")

\* line 12: draw.ellipse([150, 180, 250, 220], fill='lightblue', outline='blue')
Ellipse ==
    /\ pc = "ellipse"
    /\ Advance
    /\ img' = DrawEllipse(img, 150, 180, 250, 220, "lightblue", "blue")
    /\ UNCHANGED <<env, font, draw, fs, stdout, touched, run, fs0, prev>>

\* line 13: draw.text((165, 190), "Images", fill='black')
Text3 == TextStep("text3", 165, 190, "Images", "black")

\* line 15: img.save('test-image.png')
Save ==
    /\ pc = "save"
    /\ IF ~CanOpen(env, fs)
         THEN Raise("io") /\ UNCHANGED <<fs, touched>>
         ELSE /\ touched' = touched + 1
              /\ IF env.diskOK
                   THEN /\ Advance
                        /\ fs' = Encoded(img, IF fs.kind = "absent" THEN TRUE ELSE fs.writable)
                   ELSE /\ Raise("io")
                        /\ fs' \in AfterFailedWrite(fs)
    /\ UNCHANGED <<env, font, img, draw, stdout, run, fs0, prev>>

\* line 16: print("Created test-image.png")
PrintConfirmation ==
    /\ pc = "print"
    /\ Advance
    /\ stdout' = Append(stdout, "Created test-image.png")
    /\ UNCHANGED <<env, font, img, draw, fs, touched, run, fs0, prev>>

\* One statement of the running script.
Step ==
    \/ Import
    \/ New
    \/ Draw
    \/ Rectangle
    \/ Text1
    \/ Text2
    \/ Ellipse
    \/ Text3
    \/ Save
    \/ PrintConfirmation

\* The script is run again after the previous run has ended, in the same
\* working directory and with the same Pillow.
Rerun ==
    /\ pc \in Terminal
    /\ run < MaxRuns
    /\ prev' = [result |-> pc, file |-> fs]
    /\ run' = run + 1
    /\ pc' = "import"
    /\ env' \in Envs
    /\ img' = NoImg
    /\ draw' = [font |-> NoFont]
    /\ stdout' = <<>>
    /\ err' = "none"
    /\ trace' = <<>>
    /\ touched' = 0
    /\ fs0' = fs
    /\ UNCHANGED <<font, fs>>

Next == Step \/ Rerun

Spec == Init /\ [][Next]_vars

\* A started run is not suspended: the interpreter executes the next statement.
FairSpec == Spec /\ WF_vars(Step)


(***************************************************************************)
(* Properties                                                              *)
(***************************************************************************)

Completed(step) == \E i \in DOMAIN trace : trace[i] = step

Confirmation == "Created test-image.png"

Statements == <<"import", "new", "draw", "rectangle", "text1", "text2",
                "ellipse", "text3", "save", "print">>

\* The eight steps the description of the run names, in its order.
NamedSteps == <<"new", "rectangle", "text1", "text2", "ellipse", "text3", "save", "print">>

IsNamed(step) == \E i \in DOMAIN NamedSteps : NamedSteps[i] = step

IsPrefix(s, t) == Len(s) <= Len(t) /\ \A i \in DOMAIN s : s[i] = t[i]

\* C1: the console shows nothing but the one line "Created test-image.png";
\* the line is there only once the save has completed and test-image.png
\* holds the canvas; a run that succeeded has printed it, a run that failed
\* at any statement has printed nothing.
C1_ConfirmationOnlyAfterSave ==
    /\ stdout \in {<<>>, <<Confirmation>>}
    /\ stdout # <<>> =>
          /\ Completed("save")
          /\ err = "none"
          /\ fs.kind = "png" /\ fs.size = img.size /\ fs.pix = img.pix
    /\ pc = "done" => stdout = <<Confirmation>>
    /\ pc = "failed" => stdout = <<>>

C1_Witness == pc = "done" /\ stdout = <<Confirmation>> /\ Completed("save")

\* C2 (as amended): when test-image.png cannot be opened for writing (it does
\* not exist and the working directory is not writable, or it exists and is
\* not writable), the run ends failed, with an I/O error if it got as far as
\* the save, prints nothing and leaves test-image.png exactly as it was: no
\* empty or partial file appears.
PathNotWritable ==
    \/ fs0.kind = "absent" /\ ~env.dirWritable
    \/ fs0.kind # "absent" /\ ~fs0.writable

C2_UnwritablePathFails ==
    (pc \in Terminal /\ PathNotWritable) =>
        /\ pc = "failed"
        /\ stdout = <<>>
        /\ Completed("text3") => err = "io"
        /\ touched = 0
        /\ fs = fs0

C2_Witness ==
    /\ pc = "failed" /\ err = "io" /\ PathNotWritable
    /\ Completed("text3") /\ fs = fs0

\* C2 as stated: without write permission on the working directory (and
\* nothing else in the way) the run ends failed with an I/O error, prints
\* nothing and leaves no empty or partial test-image.png behind.
C2_Original ==
    (/\ pc \in Terminal
     /\ ~env.dirWritable
     /\ env.pil /\ env.mem /\ env.fontOK /\ env.diskOK) =>
        /\ pc = "failed"
        /\ err = "io"
        /\ stdout = <<>>
        /\ fs.kind = "partial" => fs = fs0

\* C3: a run that meets no fault and can open test-image.png does not fail;
\* when such a run follows a run that succeeded, test-image.png afterwards
\* holds this run's canvas, and that is the very content the first run left.
AllOK(e) == e.pil /\ e.mem /\ e.fontOK /\ e.dirWritable /\ e.diskOK

FaultFree == AllOK(env) /\ ~PathNotWritable

C5_TopEdgeBlue ==
    /\ Completed("rectangle") => img.pix[<<200, 50>>] = <<0, 0, 255>>
    /\ Completed("save") => fs.pix[<<200, 50>>] = <<0, 0, 255>>

C5_Witness == pc = "done" /\ fs.kind = "png" /\ fs.pix[<<200, 50>>] = <<0, 0, 255>>

\* C6: from the creation of the canvas on, its pixel (0,0) is white
\* (255,255,255), and so it is in the file a save wrote.
C6_OriginWhite ==
    /\ Completed("new") => img.pix[<<0, 0>>] = <<255, 255, 255>>
    /\ Completed("save") => fs.pix[<<0, 0>>] = <<255, 255, 255>>

C6_Witness == pc = "done" /\ fs.kind = "png" /\ fs.pix[<<0, 0>>] = <<255, 255, 255>>

\* C7: from its creation on the canvas is 400 wide and 300 high, and the file
\* a save wrote is a 400x300 image.
C7_SizeFixed ==
    /\ Completed("new") => img.size = <<400, 300>>
    /\ Completed("save") => fs.kind = "png" /\ fs.size = <<400, 300>>

C7_Witness == pc = "done" /\ Completed("text3") /\ fs.size = <<400, 300>>

\* C8: the named steps a run has completed are an initial part of: create
\* canvas, rectangle, text 1, text 2, ellipse, text 3, save, print (so each
\* happens at most once and in that order); the run opens test-image.png at
\* most once, only after all six drawing steps, and a run that succeeded
\* opened it exactly once.
C8_StepOrder ==
    /\ IsPrefix(SelectSeq(trace, IsNamed), NamedSteps)
    /\ touched <= 1
    /\ touched = 1 => IsPrefix(SubSeq(NamedSteps, 1, 6), SelectSeq(trace, IsNamed))
    /\ Completed("save") => touched = 1
    /\ pc = "done" => touched = 1 /\ SelectSeq(trace, IsNamed) = NamedSteps

C8_Witness == pc = "done" /\ touched = 1 /\ Len(trace) = Len(Statements)

\* C9: a started run ends, done or failed; a failed run raised at the first
\* statement it did not complete and nothing runs after that; a run is done
\* only when every statement, the save and the print included, completed
\* without an error.
C9_TwoTerminalStates ==
    /\ [](pc = "done" => trace = Statements /\ err = "none")
    /\ [](pc = "failed" => /\ err # "none"
                           /\ Len(trace) < Len(Statements)
                           /\ IsPrefix(trace, Statements))
    /\ [](err # "none" => pc = "failed")
    /\ [][(pc \in Terminal) => (pc' = "import" /\ run' = run + 1 /\ fs' = fs)]_vars
    /\ [](pc \notin Terminal => <>(pc \in Terminal))

C9_Witness == pc = "failed" /\ err = "render" /\ run = 2 /\ prev.result = "done"

\* C10: while the six drawing steps have not all completed, test-image.png
\* is exactly as the run found it; in particular a run that ended with a
\* rendering error has not opened the file: an earlier file keeps its
\* content and no new file appears.
C10_RenderFailureLeavesFile ==
    /\ ~Completed("text3") => fs = fs0 /\ touched = 0
    /\ err = "render" => pc = "failed" /\ fs = fs0 /\ touched = 0

C10_Witness == pc = "failed" /\ err = "render" /\ fs0.kind = "png" /\ fs = fs0

====
